---- MODULE Spec2Model ----
(***************************************************************************)
(* Model of primitives/arithmetic/src/helpers_128bit.rs: gcd, multiply,    *)
(* divide and multiply_by_rational on unsigned machine words.              *)
(*                                                                         *)
(* TLC evaluates integers in 32 bits, so the word is scaled: a biguint     *)
(* limb (u32 in the source) has LimbBits bits, a u64 has 2 * LimbBits and  *)
(* a u128 has Bits = 4 * LimbBits.  Every width-dependent quantity of the  *)
(* source (the 64-bit mask and shift of lo/hi, the shift-amount limit of   *)
(* checked_shl, leading_zeros, the limb count of to_big_uint, the range of *)
(* the u8 exponent, which is twice the word width) is derived from         *)
(* LimbBits, and all arithmetic is wrapped or flagged at the scaled width. *)
(***************************************************************************)
EXTENDS Integers, Sequences, FiniteSets, TLC

VARIABLES pc, arg, loc, ret

vars == <<pc, arg, loc, ret>>

\* Bits of one biguint limb (biguint::Single, u32 in the source).
LimbBits == 2

\* Words within InputSpan of either end of the word range are drawn as inputs.
InputSpan == 128

\* Width of u64 and of u128 at the model's scale.
HalfBits == 2 * LimbBits
Bits == 4 * LimbBits

Pow2(n) == 2 ^ n

\* u128::max_value()
U128Max == Pow2(Bits) - 1

NearPow2(x) == \E k \in 0 .. Bits : \E e \in -2 .. 2 : x = Pow2(k) + e

\* The words drawn as inputs.  With InputSpan >= 2^(Bits-1) this is every word.
U128 == { x \in 0 .. U128Max :
            x < InputSpan \/ x > U128Max - InputSpan \/ NearPow2(x) }

None == [tag |-> "None"]
Some(v) == [tag |-> "Some", v |-> v]

Min(x, y) == IF x <= y THEN x ELSE y
Max(x, y) == IF x >= y THEN x ELSE y

\* x >> 1 on an unsigned word
Shr1(x) == x \div 2

\* x & 1
Bit0(x) == x % 2

-----------------------------------------------------------------------------
(* gcd (lines 27-39).  One action per call of the recursive function; the  *)
(* `<< 1` of the both-even arm is applied when that call returns.          *)

\* Reference: the greatest common divisor as the largest common divisor.
Divides(d, n) == IF d = 0 THEN n = 0 ELSE n % d = 0

IsGcd(g, x, y) ==
    IF x = 0 /\ y = 0
    THEN g = 0
    ELSE /\ g >= 1
         /\ Divides(g, x)
         /\ Divides(g, y)
         /\ \A d \in (g + 1) .. Max(x, y) : ~(Divides(d, x) /\ Divides(d, y))

\* The arm of the match taken for the pair (a, b), in source order.
GcdArm(a, b) ==
    CASE a = b -> "equal"
      [] a = 0 \/ b = 0 -> "zero"
      [] (Bit0(a) = 0 /\ Bit0(b) = 1) \/ (Bit0(a) = 1 /\ Bit0(b) = 0) -> "even_odd"
      [] Bit0(a) = 0 /\ Bit0(b) = 0 -> "both_even"
      [] Bit0(a) = 1 /\ Bit0(b) = 1 -> "both_odd"
      [] OTHER -> "unreachable"

\* Variant: the odd-even pattern binds the operands in the wrong order, so
\* the first operand is halved even when it is the odd one.
GcdRecurseHalvesFirst(a, b) ==
    CASE GcdArm(a, b) = "even_odd" -> <<Shr1(a), b>>
      [] GcdArm(a, b) = "both_even" -> <<Shr1(a), Shr1(b)>>
      [] GcdArm(a, b) = "both_odd" ->
             <<Shr1(Max(a, b) - Min(a, b)), Min(a, b)>>

\* Variant: the even operand of the even-odd arm is passed on without `>> 1`.
GcdRecurseNoShift(a, b) ==
    CASE GcdArm(a, b) = "even_odd" ->
             IF Bit0(a) = 0 THEN <<a, b>> ELSE <<b, a>>
      [] GcdArm(a, b) = "both_even" -> <<Shr1(a), Shr1(b)>>
      [] GcdArm(a, b) = "both_odd" ->
             <<Shr1(Max(a, b) - Min(a, b)), Min(a, b)>>

\* The operands of the recursive call made by the arm.
GcdRecurse(a, b) ==
    CASE GcdArm(a, b) = "even_odd" ->
             IF Bit0(a) = 0 THEN <<Shr1(a), b>> ELSE <<Shr1(b), a>>
      [] GcdArm(a, b) = "both_even" -> <<Shr1(a), Shr1(b)>>
      [] GcdArm(a, b) = "both_odd" ->
             <<Shr1(Max(a, b) - Min(a, b)), Min(a, b)>>

\* The value returned by an arm that does not recurse.
GcdBase(a, b) ==
    CASE GcdArm(a, b) = "equal" -> b
      [] GcdArm(a, b) = "zero" -> IF a = 0 THEN b ELSE a

GcdInit ==
    /\ pc = "gcd_call"
    /\ \E a \in U128, b \in U128 : arg = [a |-> a, b |-> b]
    /\ loc = [x |-> arg.a, y |-> arg.b, pending |-> 0, lost |-> FALSE]
    /\ ret = None

\* One call of gcd(x, y): a base arm returns, a recursive arm calls again
\* (the both-even arm leaves a `<< 1` pending), the last arm is unreachable!().
GcdCall ==
    /\ pc = "gcd_call"
    /\ LET arm == GcdArm(loc.x, loc.y) IN
       CASE arm \in {"equal", "zero"} ->
                /\ ret' = Some(GcdBase(loc.x, loc.y))
                /\ pc' = IF loc.pending = 0 THEN "gcd_done" ELSE "gcd_return"
                /\ loc' = loc
         [] arm \in {"even_odd", "both_even", "both_odd"} ->
                /\ loc' = [loc EXCEPT !.x = GcdRecurse(loc.x, loc.y)[1],
                                      !.y = GcdRecurse(loc.x, loc.y)[2],
                                      !.pending = IF arm = "both_even"
                                                  THEN @ + 1 ELSE @]
                /\ pc' = "gcd_call"
                /\ ret' = ret
         [] OTHER ->
                /\ pc' = "gcd_unreachable"
                /\ UNCHANGED <<loc, ret>>
    /\ UNCHANGED arg

\* Return through one both-even frame: the callee's result `<< 1`.  The shift
\* discards the top bit of the word; lost records that the bit was set.
GcdReturn ==
    /\ pc = "gcd_return"
    /\ ret' = Some((ret.v * 2) % Pow2(Bits))
    /\ loc' = [loc EXCEPT !.pending = @ - 1,
                          !.lost = @ \/ ret.v * 2 > U128Max]
    /\ pc' = IF loc.pending = 1 THEN "gcd_done" ELSE "gcd_return"
    /\ UNCHANGED arg

GcdNext == GcdCall \/ GcdReturn

SpecGcd == GcdInit /\ [][GcdNext]_vars

FairSpecGcd == SpecGcd /\ WF_vars(GcdNext)

-----------------------------------------------------------------------------
(* Word arithmetic.  An operation on u128 is computed exactly and reduced  *)
(* to the word; Overflows tells that the exact value left the word (the    *)
(* operation panics in a build with overflow checks and wraps otherwise).  *)

Wrap(v) == v % Pow2(Bits)

Overflows(v) == v > U128Max

\* Bitwise or of two words.
RECURSIVE BitOr(_, _)
BitOr(x, y) ==
    IF x = 0 THEN y
    ELSE IF y = 0 THEN x
    ELSE Max(Bit0(x), Bit0(y)) + 2 * BitOr(x \div 2, y \div 2)

\* x << s for a shift amount below the width: the bits shifted out are dropped.
Shl(x, s) == Wrap(x * Pow2(s))

-----------------------------------------------------------------------------
(* multiply (lines 114-137): schoolbook product of two words on half-word  *)
(* limbs, one action per accumulation stage.                               *)

\* Variant: the mask is one bit short, (1 << 63) - 1.
loShortMask(x) == x % Pow2(HalfBits - 1)

\* ((1u128 << 64) - 1) & x
lo(x) == x % Pow2(HalfBits)

\* x >> 64
hi(x) == x \div Pow2(HalfBits)

MulInit ==
    /\ pc = "mul_stage1"
    /\ \E a \in U128, b \in U128 : arg = [a |-> a, b |-> b]
    /\ loc = [x |-> 0, s0 |-> 0, s1 |-> 0, s2 |-> 0, s3 |-> 0, ovf |-> FALSE]
    /\ ret = None

\* let x = lo(a) * lo(b); let s0 = lo(x);
MulStage1 ==
    /\ pc = "mul_stage1"
    /\ LET m == lo(arg.a) * lo(arg.b)
           x == Wrap(m)
       IN loc' = [loc EXCEPT !.x = x, !.s0 = lo(x), !.ovf = @ \/ Overflows(m)]
    /\ pc' = "mul_stage2"
    /\ UNCHANGED <<arg, ret>>

\* let x = hi(a) * lo(b) + hi(x); let s1 = lo(x); let s2 = hi(x);
MulStage2 ==
    /\ pc = "mul_stage2"
    /\ LET m == hi(arg.a) * lo(arg.b)
           s == Wrap(m) + hi(loc.x)
           x == Wrap(s)
       IN loc' = [loc EXCEPT !.x = x, !.s1 = lo(x), !.s2 = hi(x),
                             !.ovf = @ \/ Overflows(m) \/ Overflows(s)]
    /\ pc' = "mul_stage3"
    /\ UNCHANGED <<arg, ret>>

\* let x = s1 + lo(a) * hi(b); let s1 = lo(x);
MulStage3 ==
    /\ pc = "mul_stage3"
    /\ LET m == lo(arg.a) * hi(arg.b)
           s == loc.s1 + Wrap(m)
           x == Wrap(s)
       IN loc' = [loc EXCEPT !.x = x, !.s1 = lo(x),
                             !.ovf = @ \/ Overflows(m) \/ Overflows(s)]
    /\ pc' = "mul_stage4"
    /\ UNCHANGED <<arg, ret>>

\* let x = s2 + hi(a) * hi(b) + hi(x); let s2 = lo(x); let s3 = hi(x);
MulStage4 ==
    /\ pc = "mul_stage4"
    /\ LET m == hi(arg.a) * hi(arg.b)
           s == loc.s2 + Wrap(m)
           t == Wrap(s) + hi(loc.x)
           x == Wrap(t)
       IN loc' = [loc EXCEPT !.x = x, !.s2 = lo(x), !.s3 = hi(x),
                             !.ovf = @ \/ Overflows(m) \/ Overflows(s)
                                       \/ Overflows(t)]
    /\ pc' = "mul_pack"
    /\ UNCHANGED <<arg, ret>>

\* let result = (s1 << 64) | s0; let carry = (s3 << 64) | s2; (carry, result)
MulPack ==
    /\ pc = "mul_pack"
    /\ ret' = [carry |-> BitOr(Shl(loc.s3, HalfBits), loc.s2),
               result |-> BitOr(Shl(loc.s1, HalfBits), loc.s0)]
    /\ pc' = "mul_done"
    /\ UNCHANGED <<arg, loc>>

MulNext == MulStage1 \/ MulStage2 \/ MulStage3 \/ MulStage4 \/ MulPack

SpecMul == MulInit /\ [][MulNext]_vars

-----------------------------------------------------------------------------
(* divide (lines 142-215): a * 2^p / b by two passes of shift-then-divide. *)
(* loc.at is the source line of the return statement or of the unwrap that *)
(* panicked.                                                               *)

\* Number of significant bits of x.
RECURSIVE BitLen(_)
BitLen(x) == IF x = 0 THEN 0 ELSE 1 + BitLen(x \div 2)

\* Variant: one leading zero too many is counted.
LeadingZerosPlusOne(x) == Bits + 1 - BitLen(x)

\* Variant: the leading zeros of the signed word (the sign bit is not counted).
LeadingZerosSigned(x) == Max(0, Bits - 1 - BitLen(x))

\* u128::leading_zeros
LeadingZeros(x) == Bits - BitLen(x)

\* u128::checked_shl: None when the shift amount is not below the width,
\* otherwise x << s with the bits shifted out dropped.
CheckedShl(x, s) == IF s >= Bits THEN None ELSE Some(Shl(x, s))

\* u128::checked_div and u128::checked_rem: None when the divisor is zero.
CheckedDiv(x, y) == IF y = 0 THEN None ELSE Some(x \div y)
CheckedRem(x, y) == IF y = 0 THEN None ELSE Some(x % y)

\* u128::checked_add: None when the sum leaves the word.
CheckedAdd(x, y) == IF x + y > U128Max THEN None ELSE Some(x + y)

\* The values of the u8 exponent: twice the width of the word.
U8 == 0 .. (2 * Bits - 1)

DivInit ==
    /\ pc = "div_pass1"
    /\ \E a \in U128, b \in U128, p \in U8 : arg = [a |-> a, b |-> b, p |-> p]
    /\ loc = [a |-> arg.a, p |-> arg.p, shift |-> 0, d |-> 0, r |-> 0,
              n |-> 0, at |-> 0]
    /\ ret = None

DivPanic(line) ==
    /\ pc' = "div_panic"
    /\ loc' = [loc EXCEPT !.at = line]
    /\ ret' = ret

DivReturn(l, v, line) ==
    /\ pc' = "div_done"
    /\ loc' = [l EXCEPT !.at = line]
    /\ ret' = v

\* Lines 145-182: pre-shift a, divide, and return if the shift absorbed the
\* exponent, if the quotient cannot absorb the rest, or if nothing remains.
DivPass1 ==
    /\ pc = "div_pass1"
    /\ LET leading_zeros == LeadingZeros(arg.a)
           shift == Min(leading_zeros, arg.p)
           a == CheckedShl(arg.a, shift)
           p == arg.p - shift
           d == CheckedDiv(a.v, arg.b)
           r == CheckedRem(a.v, arg.b)
           n == CheckedShl(d.v, p)
           l1 == [loc EXCEPT !.shift = shift, !.p = p]
           l2 == [l1 EXCEPT !.a = a.v, !.d = d.v, !.r = r.v]
       IN CASE a = None -> DivPanic(151)
            [] a # None /\ d = None -> DivPanic(155)
            [] a # None /\ d # None /\ p = 0 -> DivReturn(l2, Some(d.v), 162)
            [] a # None /\ d # None /\ p # 0 /\ LeadingZeros(d.v) < p ->
                   DivReturn(l2, None, 171)
            [] a # None /\ d # None /\ p # 0 /\ LeadingZeros(d.v) >= p
                 /\ n = None -> DivPanic(175)
            [] a # None /\ d # None /\ p # 0 /\ LeadingZeros(d.v) >= p
                 /\ n # None /\ r.v = 0 ->
                   DivReturn([l2 EXCEPT !.n = n.v], Some(n.v), 181)
            [] OTHER ->
                   /\ pc' = "div_pass2"
                   /\ loc' = [l2 EXCEPT !.n = n.v]
                   /\ ret' = ret
    /\ UNCHANGED arg

\* Lines 185-214: the same on the remainder; the quotient is added to the
\* shifted first quotient if the exponent is absorbed, otherwise None.
DivPass2 ==
    /\ pc = "div_pass2"
    /\ LET leading_zeros == LeadingZeros(loc.r)
           shift == Min(leading_zeros, loc.p)
           a == CheckedShl(loc.r, shift)
           p == loc.p - shift
           d == CheckedDiv(a.v, arg.b)
           r == CheckedRem(a.v, arg.b)
           sum == CheckedAdd(d.v, loc.n)
           l1 == [loc EXCEPT !.shift = shift, !.p = p]
           l2 == [l1 EXCEPT !.a = a.v, !.d = d.v, !.r = r.v]
       IN CASE a = None -> DivPanic(196)
            [] a # None /\ d = None -> DivPanic(202)
            [] a # None /\ d # None /\ p = 0 /\ sum = None -> DivPanic(209)
            [] a # None /\ d # None /\ p = 0 /\ sum # None ->
                   DivReturn(l2, sum, 209)
            [] OTHER -> DivReturn(l2, None, 214)
    /\ UNCHANGED arg

DivNext == DivPass1 \/ DivPass2

SpecDiv == DivInit /\ [][DivNext]_vars

\* floor(a * 2^p / b) is below 2^Bits, for b # 0; the comparison is split
\* so that no side exceeds 2^(2 * Bits).
Representable(a, b, p) ==
    IF p >= Bits
    THEN a * Pow2(p - Bits) < b
    ELSE a * Pow2(p) < b * Pow2(Bits)

\* floor(a * 2^p / b), where it is representable.
Quotient(a, b, p) == (a * Pow2(p)) \div b

-----------------------------------------------------------------------------
(* The arbitrary-precision integer of crate::biguint, as consumed by this  *)
(* file: a sequence of limbs of LimbBits bits, most significant first.     *)

Single == Pow2(LimbBits)

RECURSIVE BigValue(_)
BigValue(n) ==
    IF Len(n) = 0 THEN 0
    ELSE BigValue(SubSeq(n, 1, Len(n) - 1)) * Single + n[Len(n)]

\* The k limbs of the value v.
ToLimbs(v, k) == [i \in 1 .. k |-> (v \div Pow2(LimbBits * (k - i))) % Single]

\* biguint::split: the two limbs of a u64.
BigSplit(x) == <<x \div Single, x % Single>>

\* BigUint::from_limbs
FromLimbs(limbs) == limbs

\* BigUint::lstrip: drop the leading zero limbs, keeping one limb for zero.
RECURSIVE Lstrip(_)
Lstrip(n) == IF Len(n) > 1 /\ n[1] = 0 THEN Lstrip(Tail(n)) ELSE n

\* BigUint * BigUint: the exact product on len + len limbs.
BigMul(x, y) == ToLimbs(BigValue(x) * BigValue(y), Len(x) + Len(y))

\* BigUint::add: the exact sum, with room for the carry.
BigAdd(x, y) == ToLimbs(BigValue(x) + BigValue(y), Max(Len(x), Len(y)) + 1)

\* BigUint::div_unit: the truncated quotient by one limb.
BigDivUnit(x, s) == ToLimbs(BigValue(x) \div s, Len(x))

\* BigUint::div: quotient and remainder, or no result unless both operands
\* are free of leading zero limbs, the divisor has more than one limb and the
\* dividend has more limbs than the divisor.
BigDiv(x, y) ==
    IF Len(y) <= 1 \/ y[1] = 0 \/ x[1] = 0 \/ Len(x) <= Len(y)
    THEN None
    ELSE Some([q |-> ToLimbs(BigValue(x) \div BigValue(y), Len(x) - Len(y) + 1),
               r |-> ToLimbs(BigValue(x) % BigValue(y), Len(y))])

\* TryFrom<BigUint> for u128: fails when the value has more than four limbs.
BigTryInto(n) ==
    IF Len(Lstrip(n)) > 4 THEN None ELSE Some(BigValue(n))

-----------------------------------------------------------------------------
(* split and to_big_uint (lines 42-56).                                    *)

\* (a >> 64) as u64, a as u64
split(a) == <<(a \div Pow2(HalfBits)) % Pow2(HalfBits), a % Pow2(HalfBits)>>

\* Variant: the limbs are not stripped.
to_big_uint_unstripped(x) ==
    LET xh == split(x)[1]
        xl == split(x)[2]
    IN FromLimbs(<<BigSplit(xh)[1], BigSplit(xh)[2],
                   BigSplit(xl)[1], BigSplit(xl)[2]>>)

to_big_uint(x) ==
    LET xh == split(x)[1]
        xl == split(x)[2]
    IN Lstrip(FromLimbs(<<BigSplit(xh)[1], BigSplit(xh)[2],
                          BigSplit(xl)[1], BigSplit(xl)[2]>>))

-----------------------------------------------------------------------------
(* multiply_by_rational (lines 64-112).  loc.at is the source line of the  *)
(* statement that produced the quotient.                                   *)

MbrSpan == 24

\* The words drawn as operands of multiply_by_rational.
MbrWords == { x \in 0 .. U128Max :
                x < MbrSpan \/ x > U128Max - MbrSpan \/ NearPow2(x) }

Ok(v) == [tag |-> "Ok", v |-> v]
Err(e) == [tag |-> "Err", e |-> e]

\* u128::checked_mul: None when the product leaves the word.
CheckedMul(x, y) == IF x * y > U128Max THEN None ELSE Some(x * y)

\* Lines 71-73: a is the bigger operand.
SwapBigger(a, b) == IF b > a THEN <<b, a>> ELSE <<a, b>>

\* Variant: the second branch divides a, although it tested b.
PreDivideWrongOperand(a, b, c) ==
    IF a % c = 0 THEN <<a \div c, b, 1>>
    ELSE IF b % c = 0 THEN <<a \div c, b, 1>>
    ELSE <<a, b, c>>

\* Lines 76-82: divide a, else b, by c first when the division is exact.
PreDivide(a, b, c) ==
    IF a % c = 0 THEN <<a \div c, b, 1>>
    ELSE IF b % c = 0 THEN <<a, b \div c, 1>>
    ELSE <<a, b, c>>

\* Variant: a remainder of exactly c / 2 rounds up as well.
RoundsUpAtHalf(r, c) == r >= c \div 2

\* Line 106: the quotient is incremented when the remainder exceeds c / 2.
RoundsUp(r, c) == r > c \div 2

\* `c as biguint::Single`
AsSingle(c) == c % Single

MbrInit ==
    /\ pc = "mbr_entry"
    /\ \E a \in MbrWords, b \in MbrWords, c \in MbrWords :
          arg = [a |-> a, b |-> b, c |-> c]
    /\ loc = [a |-> arg.a, b |-> arg.b, c |-> arg.c, ab |-> <<0>>,
              c_num |-> <<0>>, q |-> <<0>>, r |-> 0, div |-> None, at |-> 0]
    /\ ret = None

\* Lines 65-82: zero operands return at once; otherwise clamp c, order the
\* operands and try the exact division first.
MbrEntry ==
    /\ pc = "mbr_entry"
    /\ IF arg.a = 0 \/ arg.b = 0
       THEN /\ pc' = "mbr_done"
            /\ ret' = Ok(0)
            /\ loc' = [loc EXCEPT !.at = 65]
       ELSE LET c == Max(arg.c, 1)
                s == SwapBigger(arg.a, arg.b)
                t == PreDivide(s[1], s[2], c)
            IN /\ pc' = "mbr_mul"
               /\ loc' = [loc EXCEPT !.a = t[1], !.b = t[2], !.c = t[3]]
               /\ ret' = ret
    /\ UNCHANGED arg

\* Lines 84-86: the product fits the word.
MbrNative ==
    /\ pc = "mbr_mul"
    /\ CheckedMul(loc.a, loc.b) # None
    /\ pc' = "mbr_done"
    /\ ret' = Ok(CheckedMul(loc.a, loc.b).v \div loc.c)
    /\ loc' = [loc EXCEPT !.at = 86]
    /\ UNCHANGED arg

\* Lines 87-93: the product does not fit; the operands become big integers
\* and are multiplied.
MbrToBig ==
    /\ pc = "mbr_mul"
    /\ CheckedMul(loc.a, loc.b) = None
    /\ loc' = [loc EXCEPT
                 !.ab = Lstrip(BigMul(to_big_uint(loc.a), to_big_uint(loc.b))),
                 !.c_num = to_big_uint(loc.c)]
    /\ pc' = "mbr_div"
    /\ UNCHANGED <<arg, ret>>

\* Lines 94-96: c has one limb.
MbrDivUnit ==
    /\ pc = "mbr_div"
    /\ Len(loc.c_num) = 1
    /\ loc' = [loc EXCEPT !.q = BigDivUnit(loc.ab, AsSingle(loc.c)), !.at = 96]
    /\ pc' = "mbr_convert"
    /\ UNCHANGED <<arg, ret>>

\* Lines 97-107: c has several limbs.  A missing division result is replaced
\* by (0, 0); a remainder that does not convert to the word panics (expect).
MbrDiv ==
    /\ pc = "mbr_div"
    /\ Len(loc.c_num) # 1
    /\ LET res == BigDiv(loc.ab, loc.c_num)
           qr == IF res = None THEN [q |-> <<0>>, r |-> <<0>>] ELSE res.v
           r == BigTryInto(qr.r)
       IN IF r = None
          THEN /\ pc' = "mbr_panic"
               /\ loc' = [loc EXCEPT !.div = res, !.at = 103]
          ELSE /\ pc' = "mbr_convert"
               /\ loc' = [loc EXCEPT
                            !.div = res, !.at = 103, !.r = r.v,
                            !.q = IF RoundsUp(r.v, loc.c)
                                  THEN BigAdd(qr.q, to_big_uint(1)) ELSE qr.q]
    /\ UNCHANGED <<arg, ret>>

\* Lines 109-110: strip the quotient and convert it back to the word.
MbrConvert ==
    /\ pc = "mbr_convert"
    /\ LET q == Lstrip(loc.q)
           v == BigTryInto(q)
       IN /\ ret' = IF v = None THEN Err("result cannot fit in u128") ELSE Ok(v.v)
          /\ loc' = [loc EXCEPT !.q = q]
    /\ pc' = "mbr_done"
    /\ UNCHANGED arg

MbrNext ==
    MbrEntry \/ MbrNative \/ MbrToBig \/ MbrDivUnit \/ MbrDiv \/ MbrConvert

SpecMbr == MbrInit /\ [][MbrNext]_vars

-----------------------------------------------------------------------------
(* C7: gcd(a, b) returns the greatest common divisor of a and b, with      *)
(* gcd(a, 0) = a, gcd(0, b) = b and gcd(a, a) = a, and the `<< 1` of the   *)
(* both-even arm never shifts a set bit out of the word.                   *)
C7_GcdCorrect ==
    /\ loc.lost = FALSE
    /\ pc = "gcd_done" =>
          /\ ret.tag = "Some"
          /\ IsGcd(ret.v, arg.a, arg.b)
          /\ (arg.b = 0 => ret.v = arg.a)
          /\ (arg.a = 0 => ret.v = arg.b)
          /\ (arg.a = arg.b => ret.v = arg.a)

\* A both-even call with two large operands has returned through its shift.
C7_Witness ==
    /\ pc = "gcd_done"
    /\ arg.a = U128Max - 1
    /\ arg.b = U128Max - 3
    /\ ret = Some(2)

(* C8: every recursive call of gcd is made on operands whose sum is        *)
(* strictly smaller than the current pair's, the unreachable!() arm is     *)
(* never taken, and a base case is eventually reached.                     *)
C8_GcdTerminates ==
    /\ [](pc # "gcd_unreachable")
    /\ [][(pc = "gcd_call" /\ pc' = "gcd_call")
             => loc'.x + loc'.y < loc.x + loc.y]_vars
    /\ <>(pc = "gcd_done")

\* A both-odd call has recursed and the whole computation has finished.
C8_Witness ==
    /\ pc = "gcd_done"
    /\ arg.a = U128Max
    /\ arg.b = 1
    /\ ret = Some(1)

(* C1: multiply(a, b) returns (carry, result) with                         *)
(* carry * 2^Bits + result = a * b, and no addition or multiplication of   *)
(* the four accumulation stages leaves the word.                           *)
C1_MultiplyExact ==
    /\ loc.ovf = FALSE
    /\ pc = "mul_done" =>
          ret.carry * Pow2(Bits) + ret.result = arg.a * arg.b

\* The largest operands have been multiplied.
C1_Witness ==
    /\ pc = "mul_done"
    /\ arg.a = U128Max
    /\ arg.b = U128Max
    /\ ret.carry = U128Max - 1
    /\ ret.result = 1

(* C2: whenever divide(a, b, p) with b # 0 returns Some(v), v is            *)
(* floor(a * 2^p / b) of the original arguments, on each of the three      *)
(* returning paths (lines 162, 181 and 209).                               *)
C2_DivideSomeIsFloor ==
    (pc = "div_done" /\ arg.b # 0 /\ ret # None) =>
        /\ loc.at \in {162, 181, 209}
        /\ Representable(arg.a, arg.b, arg.p)
        /\ ret.v = Quotient(arg.a, arg.b, arg.p)

\* The case of tests::divide_works, returned by the second pass:
\* divide(i128::max_value(), 16, 3) = Some(i128::max_value() / 2).
C2_Witness ==
    /\ pc = "div_done"
    /\ arg = [a |-> Pow2(Bits - 1) - 1, b |-> 16, p |-> 3]
    /\ loc.at = 209
    /\ ret = Some((Pow2(Bits - 1) - 1) \div 2)

C9_DivideNeverPanics ==
    arg.b # 0 => pc # "div_panic"

(* C4: on the native path (a or b is zero, or the checked multiplication   *)
(* after the swap and the exact pre-division succeeds)                     *)
(* multiply_by_rational(a, b, c) with c >= 1 returns Ok(floor(a * b / c))  *)
(* of the original arguments.                                              *)
C4_NativeIsFloor ==
    (pc = "mbr_done" /\ loc.at \in {65, 86} /\ arg.c >= 1) =>
        ret = Ok((arg.a * arg.b) \div arg.c)

\* The operands were swapped, b was divided exactly and the product fitted.
C4_Witness ==
    /\ pc = "mbr_done"
    /\ loc.at = 86
    /\ arg = [a |-> 6, b |-> U128Max, c |-> 6]
    /\ loc.a = U128Max /\ loc.b = 1 /\ loc.c = 1
    /\ ret = Ok(U128Max)

\* The value the fallback computes for the original arguments according to
\* the rounding policy: truncated for a one-limb divisor, incremented for a
\* longer divisor when the remainder exceeds half of it.
RoundedQuotient(a, b, c, used) ==
    LET floor == (a * b) \div c
        rem == (a * b) % c
    IN IF used < Single THEN floor
       ELSE IF rem > used \div 2 THEN floor + 1
       ELSE floor

(* C5: on the overflow fallback the quotient computed is the exact         *)
(* quotient of a * b by c, truncated when the divisor used has one limb    *)
(* (c reset to 1 by the exact pre-division included), and floor plus one   *)
(* exactly when the divisor has several limbs and a * b mod c > c / 2.     *)
C5_FallbackRounding ==
    (pc \in {"mbr_convert", "mbr_done"} /\ loc.at \in {96, 103}) =>
        LET v == RoundedQuotient(arg.a, arg.b, Max(arg.c, 1), loc.c)
        IN /\ BigValue(loc.q) = v
           /\ loc.at = 96 <=> loc.c < Single
           /\ pc = "mbr_done" =>
                 ret = IF v > U128Max
                       THEN Err("result cannot fit in u128") ELSE Ok(v)

\* 2^(Bits-1) * 2 / 6 leaves a remainder above 3 and is rounded up.
C5_Witness ==
    /\ pc = "mbr_done"
    /\ loc.at = 103
    /\ arg = [a |-> 2, b |-> Pow2(Bits - 1), c |-> 6]
    /\ (arg.a * arg.b) % arg.c > arg.c \div 2
    /\ ret = Ok((arg.a * arg.b) \div arg.c + 1)

(* C6: multiply_by_rational(a, b, c) with c >= 1 returns Err exactly when  *)
(* floor(a * b / c) is not below 2^Bits, and never on the native path.     *)
C6_ErrIffUnrepresentable ==
    (pc = "mbr_done" /\ arg.c >= 1) =>
        /\ ret.tag = "Err" <=> (arg.a * arg.b) \div arg.c > U128Max
        /\ loc.at \in {65, 86} => ret.tag = "Ok"

(* C10: when the general division is reached the product is at least       *)
(* 2^Bits and has at least five limbs, the divisor has two to four limbs   *)
(* and no leading zero limb, the product is at least one limb longer, the  *)
(* division has a result, and the remainder is below c and converts.       *)
C10_GeneralDivisionSizes ==
    (pc \in {"mbr_convert", "mbr_done", "mbr_panic"} /\ loc.at = 103) =>
        /\ BigValue(loc.ab) >= Pow2(Bits)
        /\ BigValue(loc.ab) = loc.a * loc.b
        /\ Len(loc.ab) >= 5
        /\ loc.ab[1] # 0
        /\ Len(loc.c_num) \in 2 .. 4
        /\ loc.c_num[1] # 0
        /\ BigValue(loc.c_num) = loc.c
        /\ Len(loc.ab) >= Len(loc.c_num) + 1
        /\ loc.div # None
        /\ pc # "mbr_panic"
        /\ loc.r < loc.c

\* The general division has divided a five-limb product by a two-limb c.
C10_Witness ==
    /\ pc = "mbr_convert"
    /\ loc.at = 103
    /\ arg = [a |-> 3, b |-> U128Max, c |-> Single + 3]
    /\ Len(loc.ab) = 5
    /\ Len(loc.c_num) = 2
    /\ loc.div # None

====
